---------------------------- MODULE Spec2Model ----------------------------
(***************************************************************************)
(* A model of scrape-fsworld.py: the paced fetcher (Scraper.get), the      *)
(* extraction of an event detail page into EventData / TeamData /          *)
(* PlacementData, the series loop with its accumulated mapping `events`,   *)
(* and the per-event and per-series files it writes.                       *)
(*                                                                         *)
(* Text is a sequence of one-character strings, so that rstrip, split,     *)
(* lower, `in` and int()/float() are computed character by character.      *)
(***************************************************************************)
EXTENDS Integers, Sequences, FiniteSets, TLC

(***************************************************************************)
(* Bounds of the model                                                     *)
(***************************************************************************)
MaxId == 2
MaxListing == 2
MaxDots == 2
MaxPlace == 11
MaxFragments == 2
MaxClock == 9
TicksPerSecond == 2

(***************************************************************************)
(* Text helpers (Python str operations)                                    *)
(***************************************************************************)
LowerLetters ==
  << "a","b","c","d","e","f","g","h","i","j","k","l","m",
     "n","o","p","q","r","s","t","u","v","w","x","y","z" >>

UpperLetters ==
  << "A","B","C","D","E","F","G","H","I","J","K","L","M",
     "N","O","P","Q","R","S","T","U","V","W","X","Y","Z" >>

Digits == << "0","1","2","3","4","5","6","7","8","9" >>

IndexIn(c, table) ==
  IF \E i \in 1..Len(table) : table[i] = c
    THEN CHOOSE i \in 1..Len(table) : table[i] = c
    ELSE 0

\* str.lower() on one character
LowerChar(c) ==
  IF IndexIn(c, UpperLetters) > 0 THEN LowerLetters[IndexIn(c, UpperLetters)] ELSE c

UpperChar(c) ==
  IF IndexIn(c, LowerLetters) > 0 THEN UpperLetters[IndexIn(c, LowerLetters)] ELSE c

\* str.lower()
Lower(s) == [i \in 1..Len(s) |-> LowerChar(s[i])]

Upper(s) == [i \in 1..Len(s) |-> UpperChar(s[i])]

\* whether `sub` occurs in s at position i
OccursAt(sub, s, i) ==
  /\ i >= 1
  /\ i + Len(sub) - 1 <= Len(s)
  /\ \A k \in 1..Len(sub) : s[i + k - 1] = sub[k]

\* Python `sub in s`
Contains(s, sub) == \E i \in 1..(Len(s) + 1) : OccursAt(sub, s, i)

\* str.find(sub) + 1: the first position where sub occurs, 0 when it does not
FirstOccurrence(s, sub) ==
  IF Contains(s, sub)
    THEN CHOOSE i \in 1..(Len(s) + 1) :
           /\ OccursAt(sub, s, i)
           /\ \A j \in 1..(i - 1) : ~OccursAt(sub, s, j)
    ELSE 0

\* str.rstrip(ch): every trailing ch is removed
RECURSIVE RStrip(_, _)
RStrip(s, ch) ==
  IF Len(s) > 0 /\ s[Len(s)] = ch THEN RStrip(SubSeq(s, 1, Len(s) - 1), ch) ELSE s

RECURSIVE LStrip(_, _)
LStrip(s, ch) ==
  IF Len(s) > 0 /\ s[1] = ch THEN LStrip(Tail(s), ch) ELSE s

\* str.strip() restricted to the blank
Strip(s) == LStrip(RStrip(s, " "), " ")

IsDigit(c) == IndexIn(c, Digits) > 0

DigitVal(c) == IndexIn(c, Digits) - 1

AllDigits(s) == Len(s) > 0 /\ \A i \in 1..Len(s) : IsDigit(s[i])

RECURSIVE DigitsValue(_)
DigitsValue(s) ==
  IF Len(s) = 0 THEN 0
  ELSE 10 * DigitsValue(SubSeq(s, 1, Len(s) - 1)) + DigitVal(s[Len(s)])

\* int(str): blanks around, an optional sign, then decimal digits; anything
\* else is a ValueError
UnsignedInt(digs) ==
  IF AllDigits(digs) THEN [ok |-> TRUE, val |-> DigitsValue(digs)]
  ELSE [ok |-> FALSE, val |-> 0]

Negated(r) == [ok |-> r.ok, val |-> 0 - r.val]

SignedInt(body) ==
  IF Len(body) > 0 /\ body[1] = "-" THEN Negated(UnsignedInt(Tail(body)))
  ELSE IF Len(body) > 0 /\ body[1] = "+" THEN UnsignedInt(Tail(body))
  ELSE UnsignedInt(body)

ParseInt(s) == SignedInt(Strip(s))

(***************************************************************************)
(* float(str).  A float is kept as a decimal: mant / 10^frac, with the     *)
(* fraction's trailing zeros dropped so that equal values are equal        *)
(* records; inf and nan are values of float() too.                         *)
(***************************************************************************)
RECURSIVE Normal(_, _)
Normal(mant, frac) ==
  IF frac > 0 /\ mant % 10 = 0 THEN Normal(mant \div 10, frac - 1)
  ELSE [mant |-> mant, frac |-> frac]

FloatOf(cls, neg, n) == [cls |-> cls, neg |-> neg, mant |-> n.mant, frac |-> n.frac]

Float(cls, neg, mant, frac) ==
  FloatOf(cls, neg /\ (cls # "fin" \/ mant # 0), Normal(mant, frac))

NoFloat == [cls |-> "fin", neg |-> FALSE, mant |-> 0, frac |-> 0]

DigitsFloat(neg, ipart, fpart) ==
  IF AllDigits(ipart \o fpart)
    THEN [ok |-> TRUE,
          val |-> Float("fin", neg, DigitsValue(ipart \o fpart), Len(fpart))]
    ELSE [ok |-> FALSE, val |-> NoFloat]

DecimalFloat(neg, rest, dot) ==
  IF dot = 0 THEN DigitsFloat(neg, rest, << >>)
  ELSE DigitsFloat(neg, SubSeq(rest, 1, dot - 1), SubSeq(rest, dot + 1, Len(rest)))

NamedFloat(neg, rest, low) ==
  IF low \in { <<"i","n","f">>, <<"i","n","f","i","n","i","t","y">> }
    THEN [ok |-> TRUE, val |-> Float("inf", neg, 0, 0)]
  ELSE IF low = <<"n","a","n">>
    THEN [ok |-> TRUE, val |-> Float("nan", neg, 0, 0)]
  ELSE DecimalFloat(neg, rest, FirstOccurrence(rest, << "." >>))

SignedFloat(body) ==
  IF Len(body) > 0 /\ body[1] \in {"+", "-"}
    THEN NamedFloat(body[1] = "-", Tail(body), Lower(Tail(body)))
    ELSE NamedFloat(FALSE, body, Lower(body))

\* float(str): blanks around, an optional sign, then inf, infinity or nan in
\* any case, or decimal digits with at most one point
ParseFloat(s) == SignedFloat(Strip(s))


(***************************************************************************)
(* Data model                                                              *)
(***************************************************************************)
CarKind == {"ELECTRIC", "COMBUSTION", "OTHER"}

EventKind == {"ELECTRIC", "COMBUSTION", "MIXED"}

\* DisciplineData = Union[PlacementData, None]
None == [some |-> FALSE, place |-> 0, score |-> NoFloat]

PlacementData(place, score) == [some |-> TRUE, place |-> place, score |-> score]

\* the dataclass's generated __init__: positional arguments in field order
TeamData(a1, a2, a3, a4, a5, a6, a7, a8, a9, a10, a11, a12, a13, a14) ==
  [name |-> a1, country |-> a2, kind |-> a3, place |-> a4,
   cost |-> a5, bp |-> a6, ed |-> a7, acc |-> a8, sp |-> a9,
   autox |-> a10, endu |-> a11, eff |-> a12, pen |-> a13, total |-> a14]

EventData(id, kind, name, results) ==
  [id |-> id, kind |-> kind, name |-> name, results |-> results]

(***************************************************************************)
(* The document tree, as far as the script queries it.  An attribute is    *)
(* present with a value or absent.  A td is its text, its own title        *)
(* attribute and the title attributes of its descendant tags in document   *)
(* order; a tr is whether it holds a th, and its td cells.                 *)
(***************************************************************************)
Absent == [has |-> FALSE, val |-> <<>>]

Some(t) == [has |-> TRUE, val |-> t]

Td(text, title, desc) == [text |-> text, title |-> title, desc |-> desc]

Tr(th, tds) == [th |-> th, tds |-> tds]

\* a raised exception, or a returned value
Raise(e) == [err |-> e]

Return(v) == [err |-> "", val |-> v]

\* col.find(lambda tag: tag.has_attr("title")): the first descendant with one
FindTitled(desc) ==
  IF \E i \in 1..Len(desc) : desc[i].has
    THEN desc[CHOOSE i \in 1..Len(desc) :
                desc[i].has /\ \A j \in 1..(i - 1) : ~desc[j].has]
    ELSE Absent

\* lines 86-87
Scored(place, score) ==
  IF ~score.ok THEN Raise("ValueError")
  ELSE Return(PlacementData(place, score.val))

\* lines 77-85
Placed(place, tooltip) ==
  IF ~place.ok THEN Raise("ValueError")
  ELSE IF ~tooltip.has THEN Raise("AssertionError")
  ELSE Scored(place.val, ParseFloat(tooltip.val))

\* lines 74-77 testing the text for "-" before the dots are stripped
extract_discipline_data_unstripped(col) ==
  IF col.text = << "-" >> THEN Return(None)
  ELSE Placed(ParseInt(RStrip(col.text, ".")), FindTitled(col.desc))

extract_discipline_data(col) ==
  IF RStrip(col.text, ".") = << "-" >> THEN Return(None)
  ELSE Placed(ParseInt(RStrip(col.text, ".")), FindTitled(col.desc))

\* str.split(sep) without the limit
RECURSIVE SplitEvery(_, _)
SplitEvery(s, sep) ==
  IF FirstOccurrence(s, sep) = 0 THEN << s >>
  ELSE << SubSeq(s, 1, FirstOccurrence(s, sep) - 1) >>
         \o SplitEvery(SubSeq(s, FirstOccurrence(s, sep) + Len(sep), Len(s)), sep)

\* str.split(sep, 1)
SplitOnce(s, sep) ==
  LET i == FirstOccurrence(s, sep)
  IN IF i = 0 THEN << s >>
     ELSE << SubSeq(s, 1, i - 1), SubSeq(s, i + Len(sep), Len(s)) >>

TitleDelimiter == << " ", "|", " " >>

Electric == <<"e","l","e","c","t","r","i","c">>

Combustion == <<"c","o","m","b","u","s","t","i","o","n">>

Other == <<"o","t","h","e","r">>

\* the chain ending in a plain else
CarKindOfLenient(kind) ==
  IF kind = Electric THEN Return("ELECTRIC")
  ELSE IF kind = Combustion THEN Return("COMBUSTION")
  ELSE Return("OTHER")

\* the if/elif chain on the title of the total cell
CarKindOf(kind) ==
  IF kind = Electric THEN Return("ELECTRIC")
  ELSE IF kind = Combustion THEN Return("COMBUSTION")
  ELSE IF kind = Other THEN Return("OTHER")
  ELSE Raise("ValueError")

\* the eight calls of extract_discipline_data on cols[2]..cols[9], in order;
\* cols is 1-based here, so cols[k] of the script is cols[k + 1]
Disciplines(cols) == [i \in 1..8 |-> extract_discipline_data(cols[i + 2])]

\* the exception of the first call that raised
FirstError(d) ==
  d[CHOOSE i \in 1..8 : d[i].err # "" /\ \A j \in 1..(i - 1) : d[j].err = ""].err

\* cols[11]["title"] and the chain on it
KindAttr(title) == IF title.has THEN CarKindOf(title.val) ELSE Raise("KeyError")

\* lines 139-178 in the order the script evaluates them
TeamFrom(parts, place, d, pen, total, kind) ==
  IF Len(parts) # 2 THEN Raise("ValueError")
  ELSE IF ~place.ok THEN Raise("ValueError")
  ELSE IF \E i \in 1..8 : d[i].err # "" THEN Raise(FirstError(d))
  ELSE IF ~pen.ok THEN Raise("ValueError")
  ELSE IF ~total.ok THEN Raise("ValueError")
  ELSE IF kind.err # "" THEN Raise(kind.err)
  ELSE Return(TeamData(parts[2], parts[1], kind.val, place.val,
                       d[1].val, d[2].val, d[3].val, d[4].val,
                       d[5].val, d[6].val, d[7].val, d[8].val,
                       pen.val, total.val))

\* the body of the row loop for a row without th
ExtractTeam(cols) ==
  IF Len(cols) # 12 THEN Raise("AssertionError")
  ELSE IF ~cols[1].title.has THEN Raise("KeyError")
  ELSE TeamFrom(SplitOnce(cols[1].title.val, TitleDelimiter),
                ParseInt(RStrip(cols[2].text, ".")),
                Disciplines(cols),
                ParseFloat(cols[11].text),
                ParseFloat(cols[12].text),
                KindAttr(cols[12].title))

\* results.append(team), unless the row or a later one raised
Appended(team, rest) ==
  IF team.err # "" THEN Raise(team.err)
  ELSE IF rest.err # "" THEN Raise(rest.err)
  ELSE Return(<< team.val >> \o rest.val)

\* the row loop: rows holding a th are passed over, the first fault ends it
RECURSIVE ExtractResults(_)
ExtractResults(rows) ==
  IF Len(rows) = 0 THEN Return(<< >>)
  ELSE IF rows[1].th THEN ExtractResults(Tail(rows))
  ELSE Appended(ExtractTeam(rows[1].tds), ExtractResults(Tail(rows)))

MixedEvent == <<"m","i","x","e","d"," ","e","v","e","n","t">>

PureElectric == <<"p","u","r","e"," ","e","l","e","c","t","r","i","c">>

PureCombustion == <<"p","u","r","e"," ","c","o","m","b","u","s","t","i","o","n">>

\* event_kind is a variable of the module scope: "Unbound" before its first
\* assignment, and left as it is when no branch of the chain is taken
Unbound == "Unbound"

\* the chain testing "pure electric" first
ClassifyElectricFirst(event_info, event_kind) ==
  IF Contains(Lower(event_info), PureElectric) THEN "ELECTRIC"
  ELSE IF Contains(Lower(event_info), MixedEvent) THEN "MIXED"
  ELSE IF Contains(Lower(event_info), PureCombustion) THEN "COMBUSTION"
  ELSE event_kind

\* the chain on a variable local to the iteration
ClassifyFresh(event_info, event_kind) ==
  IF Contains(Lower(event_info), MixedEvent) THEN "MIXED"
  ELSE IF Contains(Lower(event_info), PureElectric) THEN "ELECTRIC"
  ELSE IF Contains(Lower(event_info), PureCombustion) THEN "COMBUSTION"
  ELSE Unbound

Classify(event_info, event_kind) ==
  IF Contains(Lower(event_info), MixedEvent) THEN "MIXED"
  ELSE IF Contains(Lower(event_info), PureElectric) THEN "ELECTRIC"
  ELSE IF Contains(Lower(event_info), PureCombustion) THEN "COMBUSTION"
  ELSE event_kind

(***************************************************************************)
(* An event detail page: its h4 headings (text, next sibling), whether the *)
(* element with id "results" exists, whether a table of class wrl_table    *)
(* follows it, and the table's rows.                                       *)
(***************************************************************************)
H4(text, next) == [text |-> text, next |-> next]

EventPage(h4, results, table, rows) ==
  [h4 |-> h4, results |-> results, table |-> table, rows |-> rows]

Fail(e, kind) == [err |-> e, kind |-> kind]

\* lines 131-180: the EventData to insert, unless a row raised
Tabulated(event_id, kind, name, results) ==
  IF results.err # "" THEN Fail(results.err, kind)
  ELSE [err |-> "", kind |-> kind,
        val |-> EventData(event_id, kind, name, results.val)]

\* lines 123-129: the print reads event_kind
Classified(event_id, soup, kind) ==
  IF kind = Unbound THEN Fail("NameError", kind)
  ELSE IF ~soup.results THEN Fail("AssertionError", kind)
  ELSE IF ~soup.table THEN Fail("AssertionError", kind)
  ELSE Tabulated(event_id, kind, soup.h4[1].text, ExtractResults(soup.rows))

\* lines 109-180 up to the insertion: the fault raised, or the EventData to
\* insert; kind is the value event_kind has afterwards either way
ExtractEvent(event_id, soup, event_kind) ==
  IF Len(soup.h4) # 1 THEN Fail("AssertionError", event_kind)
  ELSE IF ~soup.h4[1].next.has THEN Fail("AssertionError", event_kind)
  ELSE Classified(event_id, soup, Classify(soup.h4[1].next.val, event_kind))

(***************************************************************************)
(* What the site serves: the rendering of numbers, and the pages           *)
(***************************************************************************)
RECURSIVE NatToText(_)
NatToText(n) ==
  IF n < 10 THEN << Digits[n + 1] >>
  ELSE NatToText(n \div 10) \o << Digits[(n % 10) + 1] >>

IntToText(n) == IF n < 0 THEN << "-" >> \o NatToText(0 - n) ELSE NatToText(n)

RECURSIVE Repeat(_, _)
Repeat(c, n) == IF n <= 0 THEN << >> ELSE << c >> \o Repeat(c, n - 1)

\* mant / 10^frac written with frac digits after the point
DecimalText(mant, frac) ==
  LET d == NatToText(mant)
      padded == Repeat("0", frac + 1 - Len(d)) \o d
      cut == Len(padded) - frac
  IN IF frac = 0 THEN padded
     ELSE SubSeq(padded, 1, cut) \o << "." >> \o SubSeq(padded, cut + 1, Len(padded))

\* a discipline cell as the site renders it: "<place>." with the score in
\* the title of a span inside it
PlacedCell(place, mant, frac) ==
  Td(IntToText(place) \o << "." >>, Absent, << Some(DecimalText(mant, frac)) >>)

DashCell == Td(<< "-" >>, Absent, << >>)

Plain(text) == Td(text, Absent, << >>)

\* a result row: rank cell titled "Country | Name", place, eight discipline
\* cells, penalty, total titled with the car kind
TeamRow(country, name, place, disc, pen, total, kind) ==
  Tr(FALSE,
     << Td(<< >>, Some(country \o TitleDelimiter \o name), << >>), Plain(place) >>
       \o disc \o << Plain(pen), Td(total, Some(kind), << >>) >>)

HeaderRow == Tr(TRUE, << >>)

Hybrid == <<"h","y","b","r","i","d">>

AllDash == [i \in 1..8 |-> DashCell]

\* scenario A of the specification: Team Alpha, place "1.", no discipline
RowAlpha ==
  TeamRow(<<"U","S","A">>, <<"T","e","a","m"," ","A","l","p","h","a">>,
          <<"1",".">>, AllDash, <<"0">>, <<"3","5","0">>, Electric)

RowBeta ==
  TeamRow(<<"D","E">>, <<"B">>, <<"2",".">>,
          [i \in 1..8 |-> IF i = 4 THEN DashCell ELSE PlacedCell(i, 10 * i + 5, 1)],
          <<"1","0">>, <<"2","9","9",".","5">>, Combustion)

\* a place of 0 and a discipline place of -3: texts int() accepts
RowZero ==
  TeamRow(<<"A","T">>, <<"Z">>, <<"0",".">>,
          [i \in 1..8 |-> IF i = 1 THEN PlacedCell(0 - 3, 15, 1) ELSE DashCell],
          <<"0">>, <<"1","2">>, Electric)

SetCol(row, k, cell) == Tr(row.th, [row.tds EXCEPT ![k] = cell])

InfoMixed == << "2","0","1","9"," ","M","i","x","e","d"," ","E","v","e","n","t" >>

InfoElectric == << "P","U","R","E"," ","E","L","E","C","T","R","I","C" >>

InfoCombustion == << "p","u","r","e"," ","c","o","m","b","u","s","t","i","o","n","!" >>

InfoPlain == << "t","b","a" >>

WellFormedPages ==
  { EventPage(<< H4(<<"F","S","G">>, Some(InfoMixed)) >>, TRUE, TRUE,
              << HeaderRow, RowAlpha >>),
    EventPage(<< H4(<<"F","S","A">>, Some(InfoElectric)) >>, TRUE, TRUE,
              << HeaderRow, RowAlpha, RowBeta >>),
    EventPage(<< H4(<<"F","S","N">>, Some(InfoPlain)) >>, TRUE, TRUE,
              << HeaderRow >>),
    EventPage(<< H4(<<"F","S","Z">>, Some(InfoCombustion)) >>, TRUE, TRUE,
              << RowZero >>) }

\* one page per fault of the heading, the anchor and the table
StructureFaults(info) ==
  LET one == << H4(<<"F","S","X">>, Some(info)) >>
  IN { EventPage(<< >>, TRUE, TRUE, << HeaderRow, RowAlpha >>),
       EventPage(one \o one, TRUE, TRUE, << HeaderRow, RowAlpha >>),
       EventPage(<< H4(<<"F","S","X">>, Absent) >>, TRUE, TRUE, << RowAlpha >>),
       EventPage(one, FALSE, FALSE, << >>),
       EventPage(one, TRUE, FALSE, << >>) }

\* one page per fault of a row: 11 columns, car kind "hybrid", a place
\* without titled descendant, a title without delimiter, a place not a number
RowFaults(info) ==
  LET one == << H4(<<"F","S","X">>, Some(info)) >>
  IN { EventPage(one, TRUE, TRUE,
                 << RowAlpha, Tr(FALSE, SubSeq(RowAlpha.tds, 1, 11)) >>),
       EventPage(one, TRUE, TRUE,
                 << RowAlpha, SetCol(RowAlpha, 12, Td(<<"3","5","0">>, Some(Hybrid), << >>)) >>),
       EventPage(one, TRUE, TRUE,
                 << SetCol(RowAlpha, 5, Td(<<"3",".">>, Absent, << Absent >>)) >>),
       EventPage(one, TRUE, TRUE,
                 << SetCol(RowAlpha, 1, Td(<< >>, Some(<<"U","S","A","|","T">>), << >>)) >>),
       EventPage(one, TRUE, TRUE,
                 << SetCol(RowAlpha, 2, Plain(<<"x">>)) >>) }

\* the faults under a text with a phrase, the row faults also under one without
FaultyPages == StructureFaults(InfoMixed) \cup RowFaults(InfoMixed) \cup RowFaults(InfoPlain)

EventPages == WellFormedPages \cup FaultyPages

Ids == 1..MaxId

RECURSIVE SeqsUpTo(_, _)
SeqsUpTo(S, n) ==
  IF n = 0 THEN { << >> }
  ELSE LET shorter == SeqsUpTo(S, n - 1)
       IN shorter \cup { Append(q, x) : q \in shorter, x \in S }

\* a series landing page: whether the element with id "WorldEvents" is there,
\* and the integer values of its options in document order
ListingPages ==
  { [select |-> TRUE, options |-> q] : q \in SeqsUpTo(Ids, MaxListing) }
    \cup { [select |-> FALSE, options |-> << >>] }

(***************************************************************************)
(* A Python dict: its items in insertion order                             *)
(***************************************************************************)
Keys(d) == { d[i].key : i \in 1..Len(d) }

KeyIndex(d, k) == CHOOSE i \in 1..Len(d) : d[i].key = k

Lookup(d, k) == d[KeyIndex(d, k)].value

\* d[k] = v: the value of an existing key is replaced in place, a new key
\* is added at the end
DictSet(d, k, v) ==
  IF k \in Keys(d) THEN [d EXCEPT ![KeyIndex(d, k)].value = v]
  ELSE Append(d, [key |-> k, value |-> v])

\* the number of items under key k
Entries(d, k) == Cardinality({ i \in 1..Len(d) : d[i].key = k })

(***************************************************************************)
(* The program state                                                       *)
(***************************************************************************)
VARIABLES
  pc,            \* where the module-level script is
  wrl,           \* index of the current item of DATASETS
  event_ids,     \* the ids of the current listing not yet iterated
  event_id,      \* the loop variable
  soup,          \* the event page last fetched
  events,        \* the accumulated mapping, a dict
  event_kind,    \* the module-level variable the classification assigns
  event_files,   \* data/events/<id>.csv: id -> rows
  series_files,  \* data/<label>.csv: label -> rows
  log,           \* requests issued, files written, notes printed, in order
  error,         \* the exception that ended the run, "" when none
  clock,         \* time.time(), in ticks
  last_request,  \* Scraper.last_request
  prev_request,  \* last_request before its last assignment
  now,           \* get's local `now`
  slept,         \* the argument of get's last time.sleep, 0 when it did not sleep
  wake,          \* the earliest time the sleep returns
  get_pc,        \* where Scraper.get is
  req_end,       \* when the last requests.get returned
  nreq,          \* requests completed
  given,         \* what a page fragment was rendered from
  arg,           \* the rendered fragment handed to the extraction
  res            \* what the extraction returned

scriptVars ==
  << pc, wrl, event_ids, event_id, soup, events, event_kind, event_files,
     series_files, log, error >>

scraperVars ==
  << clock, last_request, prev_request, now, slept, wake, get_pc, req_end, nreq >>

pureVars == << given, arg, res >>

vars == << scriptVars, scraperVars, pureVars >>

DATASETS ==
  << [label |-> "FSE", url |-> "https://fs-world.org/E"],
     [label |-> "FSC", url |-> "https://fs-world.org/C"] >>

\* Scraper(): min_pause defaults to 1 second
min_pause == 1

MinPause == min_pause * TicksPerSecond

NoPage == EventPage(<< >>, FALSE, FALSE, << >>)

EmptyFiles == [k \in {} |-> << >>]

ScriptInit ==
  /\ pc = "series"
  /\ wrl = 1
  /\ event_ids = << >>
  /\ event_id = 0
  /\ soup = NoPage
  /\ events = << >>
  /\ event_kind = Unbound
  /\ event_files = EmptyFiles
  /\ series_files = EmptyFiles
  /\ log = << >>
  /\ error = ""

\* time.time() is seconds since 1970, far beyond min_pause: the clock starts
\* at the least value with that property
ScraperInit ==
  /\ clock = MinPause
  /\ last_request = 0
  /\ prev_request = 0
  /\ now = 0
  /\ slept = 0
  /\ wake = 0
  /\ get_pc = "idle"
  /\ req_end = 0
  /\ nreq = 0

\* the extraction under test has not been called
NotCalled == Raise("NotCalled")

PureIdle ==
  /\ given = << >>
  /\ arg = << >>
  /\ res = NotCalled

Init == ScriptInit /\ ScraperInit /\ PureIdle

(***************************************************************************)
(* Scraper.get, lines 64-70, called again and again by a client; time      *)
(* passes between any two of its statements and while it sleeps or waits   *)
(* for the response.                                                       *)
(***************************************************************************)
Tick ==
  /\ clock < MaxClock
  /\ clock' = clock + 1
  /\ UNCHANGED << last_request, prev_request, now, slept, wake, get_pc, req_end, nreq >>
  /\ UNCHANGED << scriptVars, pureVars >>

\* line 65
GetCall ==
  /\ get_pc = "idle"
  /\ now' = clock
  /\ get_pc' = "timed"
  /\ UNCHANGED << clock, last_request, prev_request, slept, wake, req_end, nreq >>
  /\ UNCHANGED << scriptVars, pureVars >>

\* line 66
Diff == now - last_request

\* line 67
TooSoon(diff) == diff < MinPause

\* line 68 sleeping one tick short
DeficitShort(diff) == MinPause - diff - 1

\* line 68, the argument of time.sleep
Deficit(diff) == MinPause - diff

\* lines 66-68, the branch taken: the sleep returns no earlier than its
\* argument after it was called
GetSleep ==
  /\ get_pc = "timed"
  /\ TooSoon(Diff)
  /\ slept' = Deficit(Diff)
  /\ wake' = clock + Deficit(Diff)
  /\ get_pc' = "sleeping"
  /\ UNCHANGED << clock, last_request, prev_request, now, req_end, nreq >>
  /\ UNCHANGED << scriptVars, pureVars >>

GetWake ==
  /\ get_pc = "sleeping"
  /\ clock >= wake
  /\ get_pc' = "awake"
  /\ UNCHANGED << clock, last_request, prev_request, now, slept, wake, req_end, nreq >>
  /\ UNCHANGED << scriptVars, pureVars >>

\* lines 66-67, the branch not taken
GetNoSleep ==
  /\ get_pc = "timed"
  /\ ~TooSoon(Diff)
  /\ slept' = 0
  /\ get_pc' = "awake"
  /\ UNCHANGED << clock, last_request, prev_request, now, wake, req_end, nreq >>
  /\ UNCHANGED << scriptVars, pureVars >>

\* line 69, after which requests.get is entered
GetStamp ==
  /\ get_pc = "awake"
  /\ prev_request' = last_request
  /\ last_request' = clock
  /\ get_pc' = "request"
  /\ UNCHANGED << clock, now, slept, wake, req_end, nreq >>
  /\ UNCHANGED << scriptVars, pureVars >>

\* line 70: the response arrives and get returns
GetReturn ==
  /\ get_pc = "request"
  /\ req_end' = clock
  /\ nreq' = nreq + 1
  /\ get_pc' = "idle"
  /\ UNCHANGED << clock, last_request, prev_request, now, slept, wake >>
  /\ UNCHANGED << scriptVars, pureVars >>

ScraperNext ==
  \/ Tick
  \/ GetCall
  \/ GetSleep
  \/ GetWake
  \/ GetNoSleep
  \/ GetStamp
  \/ GetReturn

ScraperSpec == Init /\ [][ScraperNext]_vars

\* one whole call of get, for the script below: in the script's runs the
\* only time that passes is the time get sleeps, the response is immediate
\* (ScraperSpec lets time pass anywhere)
PacedGet ==
  /\ now' = clock
  /\ slept' = IF TooSoon(clock - last_request) THEN Deficit(clock - last_request) ELSE 0
  /\ wake' = IF TooSoon(clock - last_request) THEN clock + slept' ELSE wake
  /\ clock' = clock + slept'
  /\ prev_request' = last_request
  /\ last_request' = clock'
  /\ req_end' = clock'
  /\ nreq' = nreq + 1
  /\ get_pc' = "idle"

(***************************************************************************)
(* The script, lines 94-253.  A request is a whole call of scraper.get     *)
(* and its entry in the log.                                               *)
(***************************************************************************)
Get(label, id) == [op |-> "GET", series |-> label, id |-> id]

WriteEvent(label, id) == [op |-> "WRITE_EVENT", series |-> label, id |-> id]

WriteSeries(label) == [op |-> "WRITE_SERIES", series |-> label, id |-> 0]

PrintSkip(label, id) == [op |-> "PRINT_SKIP", series |-> label, id |-> id]

Label == DATASETS[wrl].label

\* lines 95-98, the landing page holding the select
FetchListing ==
  /\ pc = "series"
  /\ \E page \in ListingPages :
       /\ page.select
       /\ event_ids' = page.options
  /\ log' = Append(log, Get(Label, 0))
  /\ pc' = "ids"
  /\ UNCHANGED << wrl, event_id, soup, events, event_kind, event_files,
                  series_files, error >>
  /\ PacedGet
  /\ UNCHANGED pureVars

\* lines 95-97, the assertion on event_select failing
FetchListingFault ==
  /\ pc = "series"
  /\ \E page \in ListingPages : ~page.select
  /\ log' = Append(log, Get(Label, 0))
  /\ pc' = "aborted"
  /\ error' = "AssertionError"
  /\ UNCHANGED << wrl, event_ids, event_id, soup, events, event_kind,
                  event_files, series_files >>
  /\ PacedGet
  /\ UNCHANGED pureVars

\* line 100 remembering only the event stored last
AlreadyScrapedLast(id) == events # << >> /\ events[Len(events)].key = id

\* line 100
AlreadyScraped(id) == id \in Keys(events)

\* lines 99-104
SkipEvent ==
  /\ pc = "ids"
  /\ event_ids # << >>
  /\ AlreadyScraped(Head(event_ids))
  /\ event_id' = Head(event_ids)
  /\ event_ids' = Tail(event_ids)
  /\ log' = Append(log, PrintSkip(Label, Head(event_ids)))
  /\ UNCHANGED << pc, wrl, soup, events, event_kind, event_files,
                  series_files, error >>
  /\ UNCHANGED << scraperVars, pureVars >>

\* lines 99-107
FetchEvent ==
  /\ pc = "ids"
  /\ event_ids # << >>
  /\ ~AlreadyScraped(Head(event_ids))
  /\ event_id' = Head(event_ids)
  /\ event_ids' = Tail(event_ids)
  /\ soup' \in EventPages
  /\ log' = Append(log, Get(Label, Head(event_ids)))
  /\ pc' = "extract"
  /\ UNCHANGED << wrl, events, event_kind, event_files, series_files, error >>
  /\ PacedGet
  /\ UNCHANGED pureVars

\* line 180 rebinding the mapping to the one event
InsertAlone(d, event) == << [key |-> event.id, value |-> event] >>

\* line 180
Insert(d, event) == DictSet(d, event.id, event)

\* lines 109-180, no fault
Inserted(r) ==
  /\ pc = "extract"
  /\ r.err = ""
  /\ event_kind' = r.kind
  /\ events' = Insert(events, r.val)
  /\ pc' = "write"
  /\ UNCHANGED << wrl, event_ids, event_id, soup, event_files,
                  series_files, log, error >>
  /\ UNCHANGED << scraperVars, pureVars >>

ExtractAndInsert == Inserted(ExtractEvent(event_id, soup, event_kind))

\* lines 109-180, an assertion or a conversion failing
Faulted(r) ==
  /\ pc = "extract"
  /\ r.err # ""
  /\ event_kind' = r.kind
  /\ error' = r.err
  /\ pc' = "aborted"
  /\ UNCHANGED << wrl, event_ids, event_id, soup, events, event_files,
                  series_files, log >>
  /\ UNCHANGED << scraperVars, pureVars >>

ExtractFault == Faulted(ExtractEvent(event_id, soup, event_kind))

Opt(d, v) == IF d.some THEN << v >> ELSE << >>

\* lines 213-236: the row of one team, None written as the empty value
EventRow(team) ==
  [name |-> team.name, country |-> team.country, kind |-> team.kind,
   place |-> team.place,
   cost_place |-> Opt(team.cost, team.cost.place),
   cost_score |-> Opt(team.cost, team.cost.score),
   bp_place |-> Opt(team.bp, team.bp.place),
   bp_score |-> Opt(team.bp, team.bp.score),
   ed_place |-> Opt(team.ed, team.ed.place),
   ed_score |-> Opt(team.ed, team.ed.score),
   acc_place |-> Opt(team.acc, team.acc.place),
   acc_score |-> Opt(team.acc, team.acc.score),
   sp_place |-> Opt(team.sp, team.sp.place),
   sp_score |-> Opt(team.sp, team.sp.score),
   autox_place |-> Opt(team.autox, team.autox.place),
   autox_score |-> Opt(team.autox, team.autox.score),
   endu_place |-> Opt(team.endu, team.endu.place),
   endu_score |-> Opt(team.endu, team.endu.score),
   eff_place |-> Opt(team.eff, team.eff.place),
   eff_score |-> Opt(team.eff, team.eff.score),
   pen |-> team.pen, total |-> team.total]

\* lines 182-237: the file is opened with "w" and gets one row per team of
\* the loop's `results`, which is the list just stored in events
WriteEventFile ==
  LET results == Lookup(events, event_id).results
  IN /\ pc = "write"
     /\ event_files' =
          [k \in DOMAIN event_files \cup {event_id} |->
             IF k = event_id THEN [i \in 1..Len(results) |-> EventRow(results[i])]
             ELSE event_files[k]]
     /\ log' = Append(log, WriteEvent(Label, event_id))
     /\ pc' = "ids"
     /\ UNCHANGED << wrl, event_ids, event_id, soup, events, event_kind,
                     series_files, error >>
     /\ UNCHANGED << scraperVars, pureVars >>

\* lines 245-253 counting the events instead of the event's teams
SummaryRowsCounted(d) ==
  [i \in 1..Len(d) |->
     [id |-> d[i].value.id, kind |-> d[i].value.kind, name |-> d[i].value.name,
      teams |-> Len(d)]]

\* lines 245-253: one row per value of events
SummaryRows(d) ==
  [i \in 1..Len(d) |->
     [id |-> d[i].value.id, kind |-> d[i].value.kind, name |-> d[i].value.name,
      teams |-> Len(d[i].value.results)]]

\* lines 239-253, then the next item of DATASETS or the end of the script
WriteSummary ==
  /\ pc = "ids"
  /\ event_ids = << >>
  /\ series_files' =
       [k \in DOMAIN series_files \cup {Label} |->
          IF k = Label THEN SummaryRows(events) ELSE series_files[k]]
  /\ log' = Append(log, WriteSeries(Label))
  /\ wrl' = IF wrl < Len(DATASETS) THEN wrl + 1 ELSE wrl
  /\ pc' = IF wrl < Len(DATASETS) THEN "series" ELSE "done"
  /\ UNCHANGED << event_ids, event_id, soup, events, event_kind, event_files,
                  error >>
  /\ UNCHANGED << scraperVars, pureVars >>

Next ==
  \/ FetchListing
  \/ FetchListingFault
  \/ SkipEvent
  \/ FetchEvent
  \/ ExtractAndInsert
  \/ ExtractFault
  \/ WriteEventFile
  \/ WriteSummary

Spec == Init /\ [][Next]_vars

(***************************************************************************)
(* One result row through ExtractTeam.  The row is rendered from `given`:  *)
(* either one discipline column k varies (a dash or a place with a score,  *)
(* any number of trailing dots, untitled tags before the titled one and a  *)
(* second titled tag after it) while column i holds place i and score      *)
(* i.5, or the title of the rank cell varies.                              *)
(***************************************************************************)
Decimal(mant, frac) == [mant |-> mant, frac |-> frac]

\* scores as rendered, with the value each rendering denotes
ScoreSamples ==
  { [shown |-> Decimal(7, 0), value |-> Decimal(7, 0)],
    [shown |-> Decimal(5, 1), value |-> Decimal(5, 1)],
    [shown |-> Decimal(1250, 2), value |-> Decimal(125, 1)] }

CountrySamples == { <<"U","S","A">>, <<"D","|","E">> }

\* names, with whether the delimiter occurs in them
NameSamples ==
  { [text |-> <<"T","e","a","m"," ","A">>, delimited |-> FALSE],
    [text |-> <<"A"," ","|"," ","B">>, delimited |-> TRUE],
    [text |-> <<"A","|","B"," ","|">>, delimited |-> FALSE],
    [text |-> <<" ","|"," ","|"," ">>, delimited |-> TRUE] }

Places == 1..MaxPlace

DefaultName == [text |-> <<"T","e","a","m"," ","A">>, delimited |-> FALSE]

DisciplineInputs ==
  { [variant |-> "discipline", k |-> k, dash |-> dash, place |-> n, dots |-> dots,
     score |-> sc, lead |-> lead, trail |-> trail,
     country |-> <<"U","S","A">>, name |-> DefaultName, joined |-> TRUE] :
      k \in 1..8, dash \in BOOLEAN, n \in Places, dots \in 0..MaxDots,
      sc \in ScoreSamples, lead \in 0..1, trail \in BOOLEAN }

TitleInputs ==
  { [variant |-> "title", k |-> 1, dash |-> TRUE, place |-> 1, dots |-> 0,
     score |-> [shown |-> Decimal(7, 0), value |-> Decimal(7, 0)],
     lead |-> 0, trail |-> FALSE,
     country |-> c, name |-> nm, joined |-> j] :
      c \in CountrySamples, nm \in NameSamples, j \in BOOLEAN }

RowInputs == DisciplineInputs \cup TitleInputs

\* the varied discipline cell
FocusCell(g) ==
  IF g.dash THEN Td(<< "-" >> \o Repeat(".", g.dots), Absent, Repeat(Absent, g.lead))
  ELSE Td(IntToText(g.place) \o Repeat(".", g.dots), Absent,
          Repeat(Absent, g.lead)
            \o << Some(DecimalText(g.score.shown.mant, g.score.shown.frac)) >>
            \o (IF g.trail THEN << Some(<<"9","9">>) >> ELSE << >>))

RenderRow(g) ==
  << Td(<< >>,
        Some(IF g.joined THEN g.country \o TitleDelimiter \o g.name.text
             ELSE g.country \o << "|" >> \o g.name.text),
        << >>),
     Plain(<< "1", "." >>) >>
    \o [i \in 1..8 |-> IF i = g.k THEN FocusCell(g) ELSE PlacedCell(i, 10 * i + 5, 1)]
    \o << Plain(<< "0" >>), Td(<< "3","5","0" >>, Some(Electric), << >>) >>

RowInit ==
  /\ ScriptInit
  /\ ScraperInit
  /\ given \in RowInputs
  /\ arg = RenderRow(given)
  /\ res = NotCalled

ApplyExtractTeam ==
  /\ res = NotCalled
  /\ res' = ExtractTeam(arg)
  /\ UNCHANGED << given, arg, scriptVars, scraperVars >>

RowSpec == RowInit /\ [][ApplyExtractTeam]_vars

(***************************************************************************)
(* The text after the heading through Classify.  The text is rendered from *)
(* `given`: phrases in some letter case and fillers, joined by ", ", and   *)
(* the value event_kind had before.                                        *)
(***************************************************************************)
Filler == << "p","u","r","e"," ","f","u","n"," ","e","v","e","n","t" >>

PhraseText(kind) ==
  IF kind = "MIXED" THEN MixedEvent
  ELSE IF kind = "ELECTRIC" THEN PureElectric
  ELSE IF kind = "COMBUSTION" THEN PureCombustion
  ELSE Filler

\* the first letter of every word in upper case
TitleCase(s) ==
  [i \in 1..Len(s) |-> IF i = 1 \/ s[i - 1] = " " THEN UpperChar(s[i]) ELSE s[i]]

Cased(s, case) ==
  IF case = "upper" THEN Upper(s)
  ELSE IF case = "title" THEN TitleCase(s)
  ELSE s

Fragments ==
  { [kind |-> k, case |-> c] :
      k \in EventKind \cup {"FILLER"}, c \in {"lower", "upper", "title"} }

RECURSIVE RenderInfo(_)
RenderInfo(frags) ==
  IF Len(frags) = 0 THEN << >>
  ELSE Cased(PhraseText(frags[1].kind), frags[1].case)
         \o (IF Len(frags) > 1 THEN << ",", " " >> ELSE << >>)
         \o RenderInfo(Tail(frags))

KindInit ==
  /\ ScriptInit
  /\ ScraperInit
  /\ given \in { [frags |-> f, before |-> b] :
                   f \in SeqsUpTo(Fragments, MaxFragments),
                   b \in EventKind \cup {Unbound} }
  /\ arg = RenderInfo(given.frags)
  /\ res = NotCalled

ApplyClassify ==
  /\ res = NotCalled
  /\ res' = Return(Classify(arg, given.before))
  /\ UNCHANGED << given, arg, scriptVars, scraperVars >>

KindSpec == KindInit /\ [][ApplyClassify]_vars

(***************************************************************************)
(* Properties                                                              *)
(***************************************************************************)
\* positions of the log holding a request for the detail page of id
FetchesOf(id) == { i \in 1..Len(log) : log[i].op = "GET" /\ log[i].id = id }

SkipsOf(id) == { i \in 1..Len(log) : log[i].op = "PRINT_SKIP" /\ log[i].id = id }

WritesOf(id) == { i \in 1..Len(log) : log[i].op = "WRITE_EVENT" /\ log[i].id = id }

\* the entries a step adds to the log
Added == SubSeq(log', Len(log) + 1, Len(log'))

Requests(entries) == { i \in 1..Len(entries) : entries[i].op = "GET" }

\* the script takes the next id of the listing, and it is one it met before
MeetsAgain ==
  /\ pc = "ids"
  /\ event_ids # << >>
  /\ event_ids' = Tail(event_ids)
  /\ FetchesOf(Head(event_ids)) # {}

C1_FetchedOnce ==
  \A id \in Ids :
    /\ Cardinality(FetchesOf(id)) <= 1
    /\ Entries(events, id) <= 1
    /\ (pc \in {"series", "ids", "done"} /\ FetchesOf(id) # {} => Entries(events, id) = 1)

C1_SkipIsNoOp ==
  MeetsAgain =>
    /\ events' = events
    /\ event_files' = event_files
    /\ Requests(Added) = {}

\* C1: in one run an event's detail page is requested at most once and the
\* mapping holds one entry for it, whatever the listings (an id under both
\* series, an id repeated in one listing); meeting the id again changes
\* neither the mapping nor the stored event and issues no request.
C1_Idempotent == [](C1_FetchedOnce) /\ [][C1_SkipIsNoOp]_vars

\* an id fetched under FSE, met again in the FSE listing and again under FSC
C1_Witness ==
  \E id \in Ids : \E i, j, k \in 1..Len(log) :
    /\ i < j /\ j < k
    /\ log[i] = Get("FSE", id)
    /\ log[j] = PrintSkip("FSE", id)
    /\ log[k] = PrintSkip("FSC", id)
    /\ Entries(events, id) = 1

\* C2 as stated: a request starts at least min_pause after the previous
\* request ended, and get sleeps the remaining deficit when called too soon.
C2_PauseAfterPreviousEnd ==
  /\ (get_pc = "request" /\ nreq > 0 => last_request >= req_end + MinPause)
  /\ (get_pc = "sleeping" => slept = MinPause - (now - last_request))

\* C2: a request starts at least min_pause after the previous request
\* started (after the time get stamped before issuing it); called sooner,
\* get sleeps exactly min_pause minus the time since that stamp, and it
\* does not sleep otherwise.
C2_PauseAfterPreviousStart ==
  /\ (get_pc = "request" => last_request >= prev_request + MinPause)
  /\ (get_pc = "sleeping" =>
        /\ now - last_request < MinPause
        /\ slept = MinPause - (now - last_request))
  /\ (get_pc = "awake" /\ slept = 0 => now - last_request >= MinPause)

\* a second request, issued after a sleep, whose predecessor took time
C2_Witness ==
  /\ get_pc = "request"
  /\ nreq > 0
  /\ slept > 0
  /\ req_end > prev_request

\* the rows of a summary file cover the mapping d, each key once, with the
\* team count of the stored event
Covers(rows, d) ==
  /\ Len(rows) = Cardinality(Keys(d))
  /\ \A k \in Keys(d) :
       \E i \in 1..Len(rows) :
         /\ rows[i].id = k
         /\ rows[i].teams = Len(Lookup(d, k).results)
         /\ \A j \in 1..Len(rows) : rows[j].id = k => j = i

C3_WrittenFromMapping ==
  series_files' # series_files =>
    /\ event_ids = << >>
    /\ DOMAIN series_files' = DOMAIN series_files \cup {Label}
    /\ Covers(series_files'[Label], events)
    /\ \A l \in DOMAIN series_files : l # Label => series_files'[l] = series_files[l]

C3_SameCount ==
  \A a, b \in DOMAIN series_files :
    \A i \in 1..Len(series_files[a]) : \A j \in 1..Len(series_files[b]) :
      series_files[a][i].id = series_files[b][j].id
        => series_files[a][i].teams = series_files[b][j].teams

\* C3: when the ids of a series are used up its summary file is written
\* with one row per event of the whole mapping at that moment, events of
\* the earlier series included, each row's team count the length of the
\* event's results; an event in both summaries has the same count in both.
C3_SummaryCoversMapping == [](C3_SameCount) /\ [][C3_WrittenFromMapping]_vars

\* both summaries written, the second holding an event fetched under FSE
\* and met again under FSC beside an event of its own
C3_Witness ==
  /\ pc = "done"
  /\ DOMAIN series_files = {"FSE", "FSC"}
  /\ Len(series_files["FSC"]) > Len(series_files["FSE"])
  /\ \E id \in Ids :
       /\ FetchesOf(id) # {}
       /\ \E i \in SkipsOf(id) : log[i].series = "FSC"
       /\ Len(Lookup(events, id).results) > 0

\* a cell showing the placeholder: "-" and trailing dots
ShowsDash(cell) == \E n \in 0..Len(cell.text) : cell.text = << "-" >> \o Repeat(".", n)

Untitled(cell) == \A i \in 1..Len(cell.desc) : ~cell.desc[i].has

\* the faults C5 lists, read off the page
BadRow(row) ==
  /\ ~row.th
  /\ \/ Len(row.tds) # 12
     \/ /\ Len(row.tds) = 12
        /\ \/ ~row.tds[12].title.has
           \/ row.tds[12].title.val \notin { Electric, Combustion, Other }
           \/ \E i \in 3..10 : ~ShowsDash(row.tds[i]) /\ Untitled(row.tds[i])

ListedFault(page) ==
  \/ Len(page.h4) # 1
  \/ ~page.results
  \/ ~page.table
  \/ \E i \in 1..Len(page.rows) : BadRow(page.rows[i])

C5_FaultEndsRun ==
  pc = "extract" /\ ListedFault(soup) =>
    /\ pc' = "aborted"
    /\ error' # ""
    /\ events' = events
    /\ event_files' = event_files
    /\ series_files' = series_files
    /\ log' = log

C5_Aborted ==
  pc = "aborted" /\ event_id # 0 /\ log[Len(log)] = Get(Label, event_id) =>
    /\ event_id \notin Keys(events)
    /\ event_id \notin DOMAIN event_files
    /\ Label \notin DOMAIN series_files
    /\ DOMAIN event_files = Keys(events)

\* C5: a listed fault in an event page (car kind outside the three, a
\* placed discipline cell without a titled descendant, a row without 12
\* columns, not one h4, no results table) ends the run in the step that
\* extracts it: the event is not inserted, no file is written for it, no
\* further step follows (no later request, no summary of the current
\* series), and the files of the events inserted before stay as they were.
C5_FaultAborts ==
  /\ [](C5_Aborted)
  /\ [][C5_FaultEndsRun]_vars
  /\ [][pc # "aborted"]_vars

\* the run ended on a total cell titled "hybrid", after an event was stored
\* and its file written
C5_Witness ==
  /\ pc = "aborted"
  /\ error = "ValueError"
  /\ \E i \in 1..Len(soup.rows) :
       Len(soup.rows[i].tds) = 12 /\ soup.rows[i].tds[12].title = Some(Hybrid)
  /\ Len(events) > 0
  /\ DOMAIN event_files = Keys(events)

DisciplineFields(team) ==
  << team.cost, team.bp, team.ed, team.acc, team.sp, team.autox, team.endu, team.eff >>

\* C8 as stated: every stored team has a positive place and every stored
\* placement a positive place, whatever integers the place cells show.
C8_PlacesPositive ==
  \A e \in 1..Len(events) :
    \A t \in 1..Len(events[e].value.results) :
      LET team == events[e].value.results[t]
      IN /\ team.place > 0
         /\ \A i \in 1..8 :
              DisciplineFields(team)[i].some => DisciplineFields(team)[i].place > 0

\* the heading is followed by a text holding none of the three phrases
NoPhrase(page) == Len(page.h4) = 1 /\ page.h4[1].next = Some(InfoPlain)

C9_StaleKind ==
  pc = "extract" /\ NoPhrase(soup) =>
    IF events = << >>
      THEN /\ pc' = "aborted"
           /\ error' = "NameError"
           /\ events' = events
      ELSE /\ error' # "NameError"
           /\ pc' = "write" =>
                /\ Len(events') = Len(events) + 1
                /\ events'[Len(events')].key = event_id
                /\ events'[Len(events')].value.kind = events[Len(events)].value.kind

\* C9: a text with none of the three phrases raises nothing at the
\* classification; the event is stored with the kind of the event stored
\* last before it, whatever ids were skipped and whichever series that was
\* in; only when no event was classified before in the run is the kind
\* undefined, and the run ends before the event is inserted.
C9_KindCarriedOver == [][C9_StaleKind]_vars

\* under FSC, after a skipped id, an event without phrase is stored with
\* the kind of the last event of FSE
C9_Witness ==
  /\ pc = "write"
  /\ NoPhrase(soup)
  /\ Label = "FSC"
  /\ Len(log) > 1
  /\ log[Len(log) - 1].op = "PRINT_SKIP"
  /\ Len(events) > 1
  /\ events[Len(events)].value.kind = events[Len(events) - 1].value.kind

\* the ids the current series has taken from its listing so far
TakenInSeries ==
  { log[i].id : i \in { j \in 1..Len(log) :
      /\ log[j].series = Label
      /\ log[j].op \in {"GET", "PRINT_SKIP"}
      /\ log[j].id # 0 } }

C10_Grows ==
  /\ Len(events') >= Len(events)
  /\ \A i \in 1..Len(events) : events'[i] = events[i]

C10_FilesAtRequest ==
  (\E i \in 1..Len(Added) : Added[i].op \in {"GET", "WRITE_SERIES"}) =>
    /\ DOMAIN event_files = Keys(events)
    /\ \A id \in Keys(events) : Cardinality(WritesOf(id)) = 1

C10_SummaryAfterFiles ==
  series_files' # series_files => TakenInSeries \subseteq DOMAIN event_files

C10_FileFollowsInsert ==
  events' # events =>
    /\ pc' = "write"
    /\ Keys(events') = DOMAIN event_files \cup {event_id}
    /\ event_id \notin DOMAIN event_files

C10_State ==
  /\ \A i \in 1..Len(events) : events[i].value.id = events[i].key
  /\ \A id \in Ids : Cardinality(WritesOf(id)) <= 1
  /\ pc = "write" => Cardinality(WritesOf(event_id)) = 0
  /\ pc = "done" =>
       /\ DOMAIN event_files = Keys(events)
       /\ \A id \in Keys(events) : Cardinality(WritesOf(id)) = 1

\* C10: the mapping only grows, no entry is removed or replaced, and every
\* entry is stored under its own id.  The file of an event is written once,
\* in the step after its insertion and before any request; so at every
\* request, at every summary and at the end the files written are those of
\* the keys of the mapping, and a summary follows the files of all ids the
\* series listed.
C10_MappingAndFiles ==
  /\ [](C10_State)
  /\ [][C10_Grows]_vars
  /\ [][C10_FilesAtRequest]_vars
  /\ [][C10_SummaryAfterFiles]_vars
  /\ [][C10_FileFollowsInsert]_vars

\* the end of a run in which an id was skipped and two events were stored
C10_Witness ==
  /\ pc = "done"
  /\ Len(events) > 1
  /\ \E id \in Ids : SkipsOf(id) # {}
  /\ DOMAIN event_files = Keys(events)

Called == res.err # "NotCalled"

\* what column i of the rendered row denotes
Denoted(g, i) ==
  IF i # g.k
    THEN [some |-> TRUE, place |-> i,
          score |-> [cls |-> "fin", neg |-> FALSE, mant |-> 10 * i + 5, frac |-> 1]]
  ELSE IF g.dash
    THEN [some |-> FALSE, place |-> 0,
          score |-> [cls |-> "fin", neg |-> FALSE, mant |-> 0, frac |-> 0]]
  ELSE [some |-> TRUE, place |-> g.place,
        score |-> [cls |-> "fin", neg |-> FALSE,
                   mant |-> g.score.value.mant, frac |-> g.score.value.frac]]

\* C4: a discipline cell showing "-", with any trailing dots, decodes to
\* null; any other well-formed cell decodes to the placement whose place is
\* the integer shown before the dots and whose score is the value of the
\* title of the first descendant that has one; and columns 2..9 go to cost,
\* bp, ed, acc, sp, autox, endu, eff in that order.
C4_DisciplinesDecoded ==
  Called /\ given.variant = "discipline" =>
    /\ res.err = ""
    /\ \A i \in 1..8 : DisciplineFields(res.val)[i] = Denoted(given, i)

\* the last column placed, with two dots, an untitled tag before the titled
\* one and another titled tag after it
C4_Witness ==
  /\ Called
  /\ res.err = ""
  /\ given.variant = "discipline"
  /\ given.k = 8
  /\ ~given.dash
  /\ given.dots = 2
  /\ given.lead = 1
  /\ given.trail
  /\ given.place > 9
  /\ res.val.eff.some

\* C7: a title "<Country> | <Name>" decodes to the pair (Country, Name),
\* split at the first " | " only, so a Name holding " | " stays whole; a
\* title without " | " is a fault.
C7_TitleSplitOnce ==
  Called /\ given.variant = "title" =>
    IF given.joined
      THEN /\ res.err = ""
           /\ res.val.country = given.country
           /\ res.val.name = given.name.text
      ELSE ~given.name.delimited => res.err = "ValueError"

\* a name holding the delimiter twice, kept whole
C7_Witness ==
  /\ Called
  /\ given.variant = "title"
  /\ given.joined
  /\ given.name.delimited
  /\ given.name.text = << " ","|"," ","|"," " >>
  /\ res.err = ""
  /\ res.val.name = given.name.text

Holds(frags, kind) == \E i \in 1..Len(frags) : frags[i].kind = kind

\* C6: the text is lower-cased and tested for "mixed event", then "pure
\* electric", then "pure combustion"; the first test that succeeds gives the
\* kind, so "mixed event" wins over "pure electric" in the same text, in
\* any letter case and wherever the phrases stand.
C6_KindByFirstTest ==
  Called =>
    /\ (Holds(given.frags, "MIXED") => res.val = "MIXED")
    /\ ((~Holds(given.frags, "MIXED") /\ Holds(given.frags, "ELECTRIC"))
          => res.val = "ELECTRIC")
    /\ ((~Holds(given.frags, "MIXED") /\ ~Holds(given.frags, "ELECTRIC")
            /\ Holds(given.frags, "COMBUSTION"))
          => res.val = "COMBUSTION")

\* "PURE ELECTRIC, Mixed Event" classified MIXED
C6_Witness ==
  /\ Called
  /\ Len(given.frags) = 2
  /\ given.frags[1] = [kind |-> "ELECTRIC", case |-> "upper"]
  /\ given.frags[2] = [kind |-> "MIXED", case |-> "title"]
  /\ res.val = "MIXED"

=============================================================================
